---------------------------- MODULE Spec2Model ----------------------------
(***************************************************************************)
(* A model of the request gateway of pytrends-cli (src/server.py): the     *)
(* sliding-window RateLimiter and Handler.do_GET with its route table, the *)
(* trending-search functions with their fallback calls, and the            *)
(* breadth-first topic exploration of get_niche_topics.                    *)
(*                                                                         *)
(* Strings the code inspects character by character (pn) are sequences of  *)
(* one-character strings; time.time() is an integer clock.                 *)
(***************************************************************************)
EXTENDS Integers, Sequences, FiniteSets, TLC

VARIABLES
    max_calls,          \* RateLimiter.max_calls
    time_frame,         \* RateLimiter.time_frame
    calls,              \* RateLimiter.calls: the recorded timestamps, oldest first
    now,                \* the value time.time() returns
    req,                \* the last request do_GET handled, with the window it met
    resp,               \* the response do_GET gave to that request
    depth,              \* get_niche_topics: argument depth
    results_per_level,  \* get_niche_topics: argument results_per_level
    suggestionFn,       \* the suggestion provider: keyword -> answer
    nodes,              \* get_niche_topics: the nodes of topic_tree, root first
    processing_queue,   \* get_niche_topics: processing_queue
    pc,                 \* get_niche_topics: position (idle, loop, done)
    pacing,             \* get_niche_topics: did time.sleep(0.5) follow the last call
    fcall,              \* a function call under check: its name and arguments
    fresult             \* what that call returned or raised

vars == <<max_calls, time_frame, calls, now, req, resp,
          depth, results_per_level, suggestionFn, nodes, processing_queue, pc,
          pacing, fcall, fresult>>

gatewayVars == <<max_calls, time_frame, calls, now, req, resp>>
exploreVars == <<depth, results_per_level, suggestionFn, nodes, processing_queue, pc,
                 pacing>>
callVars == <<fcall, fresult>>

----------------------------------------------------------------------------
(* Bounds of the model. *)

\* RateLimiter(max_calls, time_frame) is checked for max_calls in 1..MaxCallsBound
MaxCallsBound == 2
\* ... and time_frame in 1..MaxWindow
MaxWindow == 2
\* the clock runs from 0 to MaxTime
MaxTime == 3
\* the suggestion provider answers with at most MaxSuggLen suggestions
MaxSuggLen == 3
\* get_niche_topics is checked for results_per_level up to MaxResults
MaxResults == 2

----------------------------------------------------------------------------
(* Strings *)

UpperChars == <<"A","B","C","D","E","F","G","H","I","J","K","L","M",
                "N","O","P","Q","R","S","T","U","V","W","X","Y","Z">>
LowerChars == <<"a","b","c","d","e","f","g","h","i","j","k","l","m",
                "n","o","p","q","r","s","t","u","v","w","x","y","z">>

\* the index of character c in the alphabet t, 0 when it is not in it
IndexIn(t, c) == IF \E i \in DOMAIN t : t[i] = c
                 THEN CHOOSE i \in DOMAIN t : t[i] = c
                 ELSE 0

\* str.lower()
lower(s) == [i \in DOMAIN s |->
                IF IndexIn(UpperChars, s[i]) # 0
                THEN LowerChars[IndexIn(UpperChars, s[i])] ELSE s[i]]

\* str.upper()
upper(s) == [i \in DOMAIN s |->
                IF IndexIn(LowerChars, s[i]) # 0
                THEN UpperChars[IndexIn(LowerChars, s[i])] ELSE s[i]]

\* min of two integers
Min(a, b) == IF a < b THEN a ELSE b

\* max of two integers
Max(a, b) == IF a > b THEN a ELSE b

\* the slice s[:n] of Python: the first n elements, all but the last -n for n < 0
SliceTo(s, n) == IF n >= 0 THEN SubSeq(s, 1, Min(n, Len(s)))
                 ELSE SubSeq(s, 1, Max(Len(s) + n, 0))

\* dict.get(key, default) on a dict given as a set of <<key, value>> pairs
DictGet(d, key, default) == IF \E p \in d : p[1] = key
                            THEN (CHOOSE p \in d : p[1] = key)[2]
                            ELSE default

\* a dict key that is not present
Absent == "<absent>"

----------------------------------------------------------------------------
(* Country tables *)

\* get_realtime_trending_searches: supported_countries (the list, as a set of
\* strings; a string is a sequence of one-character strings).
supported_countries ==
    { <<"A", "R">>, <<"A", "U">>, <<"A", "T">>, <<"B", "E">>, <<"B", "R">>, <<"C", "A">>, <<"C", "L">>,
      <<"C", "O">>, <<"C", "Z">>, <<"D", "K">>, <<"E", "G">>, <<"F", "I">>, <<"F", "R">>, <<"D", "E">>,
      <<"G", "R">>, <<"H", "K">>, <<"H", "U">>, <<"I", "N">>, <<"I", "D">>, <<"I", "E">>, <<"I", "L">>,
      <<"I", "T">>, <<"J", "P">>, <<"K", "E">>, <<"M", "Y">>, <<"M", "X">>, <<"N", "L">>, <<"N", "Z">>,
      <<"N", "G">>, <<"N", "O">>, <<"P", "L">>, <<"P", "T">>, <<"P", "H">>, <<"R", "O">>, <<"R", "U">>,
      <<"S", "A">>, <<"S", "G">>, <<"Z", "A">>, <<"K", "R">>, <<"E", "S">>, <<"S", "E">>, <<"C", "H">>,
      <<"T", "W">>, <<"T", "H">>, <<"T", "R">>, <<"U", "A">>, <<"G", "B">>, <<"U", "S">>, <<"V", "N">> }

\* get_realtime_trending_searches: country_map, as a set of <<key, value>> pairs.
country_map ==
    { <<<<"u", "n", "i", "t", "e", "d", "_", "s", "t", "a", "t", "e", "s">>,
         <<"U", "S">>>>,
      <<<<"i", "n", "d", "i", "a">>,
         <<"I", "N">>>>,
      <<<<"b", "r", "a", "z", "i", "l">>,
         <<"B", "R">>>>,
      <<<<"m", "e", "x", "i", "c", "o">>,
         <<"M", "X">>>>,
      <<<<"u", "n", "i", "t", "e", "d", "_", "k", "i", "n", "g", "d", "o", "m">>,
         <<"G", "B">>>>,
      <<<<"f", "r", "a", "n", "c", "e">>,
         <<"F", "R">>>>,
      <<<<"g", "e", "r", "m", "a", "n", "y">>,
         <<"D", "E">>>>,
      <<<<"i", "t", "a", "l", "y">>,
         <<"I", "T">>>>,
      <<<<"s", "p", "a", "i", "n">>,
         <<"E", "S">>>>,
      <<<<"c", "a", "n", "a", "d", "a">>,
         <<"C", "A">>>>,
      <<<<"a", "u", "s", "t", "r", "a", "l", "i", "a">>,
         <<"A", "U">>>>,
      <<<<"j", "a", "p", "a", "n">>,
         <<"J", "P">>>> }

\* get_trending_searches: known_countries, as a set of <<key, value>> pairs.
known_countries ==
    { <<<<"u", "n", "i", "t", "e", "d", "_", "s", "t", "a", "t", "e", "s">>,
         <<"u", "n", "i", "t", "e", "d", "_", "s", "t", "a", "t", "e", "s">>>>,
      <<<<"u", "s">>,
         <<"u", "n", "i", "t", "e", "d", "_", "s", "t", "a", "t", "e", "s">>>>,
      <<<<"u", "k">>,
         <<"u", "n", "i", "t", "e", "d", "_", "k", "i", "n", "g", "d", "o", "m">>>>,
      <<<<"u", "n", "i", "t", "e", "d", "_", "k", "i", "n", "g", "d", "o", "m">>,
         <<"u", "n", "i", "t", "e", "d", "_", "k", "i", "n", "g", "d", "o", "m">>>>,
      <<<<"j", "a", "p", "a", "n">>,
         <<"j", "a", "p", "a", "n">>>>,
      <<<<"c", "a", "n", "a", "d", "a">>,
         <<"c", "a", "n", "a", "d", "a">>>>,
      <<<<"g", "e", "r", "m", "a", "n", "y">>,
         <<"g", "e", "r", "m", "a", "n", "y">>>>,
      <<<<"i", "n", "d", "i", "a">>,
         <<"i", "n", "d", "i", "a">>>>,
      <<<<"a", "u", "s", "t", "r", "a", "l", "i", "a">>,
         <<"a", "u", "s", "t", "r", "a", "l", "i", "a">>>>,
      <<<<"b", "r", "a", "z", "i", "l">>,
         <<"b", "r", "a", "z", "i", "l">>>>,
      <<<<"f", "r", "a", "n", "c", "e">>,
         <<"f", "r", "a", "n", "c", "e">>>>,
      <<<<"m", "e", "x", "i", "c", "o">>,
         <<"m", "e", "x", "i", "c", "o">>>>,
      <<<<"i", "t", "a", "l", "y">>,
         <<"i", "t", "a", "l", "y">>>> }

\* get_trending_searches: the countries whose failed call is repeated.
alternate_format_countries ==
    { <<"u", "s">>, <<"u", "k">>, <<"j", "p">>, <<"c", "a">>, <<"d", "e">>, <<"i", "n">>, <<"a", "u">> }

\* The pn values a request may carry.
PnInputs ==
    { <<"U", "S">>,
      <<"u", "s">>,
      <<"U", "n", "i", "t", "e", "d", "_", "S", "t", "a", "t", "e", "s">>,
      <<"X", "X">>,
      <<"j", "p">> }

----------------------------------------------------------------------------
(* RateLimiter *)

\* RateLimiter.add_call: drop the timestamps not newer than t - frame, append t
add_call(cs, t, frame) ==
    Append(SelectSeq(cs, LAMBDA call : call > t - frame), t)

\* is_allowed with "<=" in place of "<"
is_allowed_Inclusive(cs, maxc) == Len(cs) <= maxc

\* RateLimiter.is_allowed: the length of the stored list against max_calls
is_allowed(cs, maxc) == Len(cs) < maxc

----------------------------------------------------------------------------
(* Upstream providers.  A provider call either raises, or returns no rows, *)
(* or returns rows; which one is an input of the request.  A provider call *)
(* is recorded as <<method, pn argument, outcome>>.                        *)

Outcomes == {"raise", "empty", "rows"}

\* what pytrends.realtime_trending_searches returns when it returns
RealtimeFrame(o) ==
    IF o = "rows"
    THEN << [title |-> "story 1", entityNames |-> <<"e1", "e2">>],
            [title |-> "story 2", entityNames |-> <<>>] >>
    ELSE << >>

\* what pytrends.today_searches returns when it returns
TodaySeries(o) == IF o = "rows" THEN << "daily 1", "daily 2" >> ELSE << >>

\* what pytrends.trending_searches returns when it returns (one column)
TrendingFrame(o) == IF o = "rows" THEN << "trend 1", "trend 2" >> ELSE << >>

\* str(e) of the exception a provider call raises
ProviderError(provider) == <<"error of ", provider>>

\* a function returned value v after the provider calls ups
Returned(v, ups) == [raised |-> FALSE, value |-> v, upstream |-> ups]

\* a function raised an exception with message m after the provider calls ups
Raised(m, ups) == [raised |-> TRUE, value |-> m, upstream |-> ups]

----------------------------------------------------------------------------
(* Python built-ins on strings *)

Digits == <<"0","1","2","3","4","5","6","7","8","9">>

\* str.isdigit for one ASCII character
IsDigit(c) == IndexIn(Digits, c) # 0

\* the regular expression \d+ matched against the whole of s
AllDigits(s) == Len(s) > 0 /\ \A i \in DOMAIN s : IsDigit(s[i])

\* the number a string of decimal digits denotes
RECURSIVE DigitsValue(_)
DigitsValue(s) ==
    IF Len(s) = 0 THEN 0
    ELSE 10 * DigitsValue(SubSeq(s, 1, Len(s) - 1))
           + (IndexIn(Digits, s[Len(s)]) - 1)

\* int(s) for a str s: an optional sign and decimal digits, ValueError
\* otherwise
int(s) ==
    LET signed == Len(s) > 0 /\ s[1] \in {"-", "+"}
        body   == IF signed THEN Tail(s) ELSE s
    IN  IF AllDigits(body)
        THEN Returned(IF signed /\ s[1] = "-" THEN 0 - DigitsValue(body)
                      ELSE DigitsValue(body), << >>)
        ELSE Raised(<<"invalid literal for int() with base 10: ", s>>, << >>)

\* s.split(sep) for a one-character separator
RECURSIVE split(_, _)
split(s, sep) ==
    IF \E i \in DOMAIN s : s[i] = sep
    THEN LET i == CHOOSE k \in DOMAIN s :
                     s[k] = sep /\ \A j \in 1..(k - 1) : s[j] # sep
         IN  <<SubSeq(s, 1, i - 1)>> \o split(SubSeq(s, i + 1, Len(s)), sep)
    ELSE <<s>>

\* pattern.match(s) for a pattern "^body$": "$" matches at the end of s and
\* before a newline that ends s, so the body is matched against one of these
BeforeDollar(s) ==
    IF Len(s) > 0 /\ s[Len(s)] = "\n"
    THEN {s, SubSeq(s, 1, Len(s) - 1)}
    ELSE {s}

----------------------------------------------------------------------------
(* get_trending_searches *)

get_trending_searches(pn, o1, o2) ==
    LET country == upper(DictGet(known_countries, lower(pn), pn))
        first   == <<"trending_searches", country, o1>>
        second  == <<"trending_searches", upper(country), o2>>
        failed  == <<"Failed to get trending searches for ", pn, ": ",
                     ProviderError("trending_searches")>>
        records(o) == [i \in DOMAIN TrendingFrame(o) |->
                          [query |-> TrendingFrame(o)[i]]]
    IN  IF o1 # "raise"
        THEN Returned([pn |-> pn, data |-> records(o1)], <<first>>)
        ELSE IF lower(country) \in alternate_format_countries
             THEN IF o2 # "raise"
                  THEN Returned([pn |-> pn, data |-> records(o2)], <<first, second>>)
                  ELSE Raised(failed, <<first, second>>)
             ELSE Raised(failed, <<first>>)

----------------------------------------------------------------------------
(* get_realtime_trending_searches *)

\* the normalisation with the alias looked up under pn as given
normalize_pn_CaseSensitive(pn0) ==
    DictGet(country_map, pn0, upper(SliceTo(pn0, 2)))

\* get_realtime_trending_searches: "pn = country_map.get(pn.lower(),
\* pn[:2].upper())"
normalize_pn(pn0) ==
    DictGet(country_map, lower(pn0), upper(SliceTo(pn0, 2)))

\* get_realtime_trending_searches with the daily source called after a
\* realtime call that returned rows as well
get_realtime_trending_searches_AlwaysDaily(pn0, cat, o1, o2) ==
    LET pn == normalize_pn(pn0)
        realtime == <<"realtime_trending_searches", pn, o1>>
        today    == <<"today_searches", pn, o2>>
        df       == RealtimeFrame(o1)
        series   == TodaySeries(o2)
    IN  IF pn \notin supported_countries
        THEN Raised(<<"Invalid country code: ", pn, ". Supported countries: ",
                      supported_countries>>, << >>)
        ELSE IF o1 # "raise"
        THEN IF df = << >>
             THEN Returned([pn |-> pn, cat |-> cat, data |-> << >>,
                            note |-> Absent, error |-> Absent], <<realtime>>)
             ELSE Returned([pn |-> pn, cat |-> cat,
                            data |-> [i \in DOMAIN df |->
                                        [title |-> df[i].title,
                                         entities |-> df[i].entityNames]],
                            note |-> Absent, error |-> Absent],
                           <<realtime, today>>)
        ELSE IF o2 # "raise"
        THEN Returned([pn |-> pn, cat |-> cat,
                       data |-> [i \in DOMAIN series |-> [title |-> series[i]]],
                       note |-> "Used daily trends as fallback",
                       error |-> Absent], <<realtime, today>>)
        ELSE Returned([pn |-> pn, cat |-> cat,
                       data |-> << [note |-> "Could not retrieve trending searches"] >>,
                       note |-> Absent,
                       error |-> ProviderError("realtime_trending_searches")],
                      <<realtime, today>>)

get_realtime_trending_searches(pn0, cat, o1, o2) ==
    LET pn == normalize_pn(pn0)
        realtime == <<"realtime_trending_searches", pn, o1>>
        today    == <<"today_searches", pn, o2>>
        df       == RealtimeFrame(o1)
        series   == TodaySeries(o2)
    IN  IF pn \notin supported_countries
        THEN Raised(<<"Invalid country code: ", pn, ". Supported countries: ",
                      supported_countries>>, << >>)
        ELSE IF o1 # "raise"
        THEN IF df = << >>
             THEN Returned([pn |-> pn, cat |-> cat, data |-> << >>,
                            note |-> Absent, error |-> Absent], <<realtime>>)
             ELSE Returned([pn |-> pn, cat |-> cat,
                            data |-> [i \in DOMAIN df |->
                                        [title |-> df[i].title,
                                         entities |-> df[i].entityNames]],
                            note |-> Absent, error |-> Absent], <<realtime>>)
        ELSE IF o2 # "raise"
        THEN Returned([pn |-> pn, cat |-> cat,
                       data |-> [i \in DOMAIN series |-> [title |-> series[i]]],
                       note |-> "Used daily trends as fallback",
                       error |-> Absent], <<realtime, today>>)
        ELSE Returned([pn |-> pn, cat |-> cat,
                       data |-> << [note |-> "Could not retrieve trending searches"] >>,
                       note |-> Absent,
                       error |-> ProviderError("realtime_trending_searches")],
                      <<realtime, today>>)

----------------------------------------------------------------------------
(* cli.py: parameter validation and get_interest_over_time *)

IsUpper(c) == IndexIn(UpperChars, c) # 0

\* the body of COUNTRY_CODE_PATTERN: [A-Z]{2}(-[A-Z]{2,3})?
CountryCodeBody(s) ==
    /\ Len(s) \in {2, 5, 6}
    /\ IsUpper(s[1]) /\ IsUpper(s[2])
    /\ Len(s) > 2 => /\ s[3] = "-"
                     /\ \A i \in 4..Len(s) : IsUpper(s[i])

COUNTRY_CODE_PATTERN(s) == \E t \in BeforeDollar(s) : CountryCodeBody(t)

\* the body of DATE_PATTERN: \d{4}-\d{2}-\d{2}
DateBody(s) ==
    /\ Len(s) = 10
    /\ \A i \in 1..10 : IF i \in {5, 8} THEN s[i] = "-" ELSE IsDigit(s[i])

DATE_PATTERN(s) == \E t \in BeforeDollar(s) : DateBody(t)

\* the first alternative of TIMEFRAME_PATTERN with [ym] in place of [ydm]
TodayBody_NoDays(s) ==
    /\ Len(s) >= 9
    /\ SubSeq(s, 1, 6) = <<"t","o","d","a","y"," ">>
    /\ AllDigits(SubSeq(s, 7, Len(s) - 2))
    /\ s[Len(s) - 1] = "-"
    /\ s[Len(s)] \in {"y", "m"}

\* the first alternative of TIMEFRAME_PATTERN: today \d+-[ydm]
TodayBody(s) ==
    /\ Len(s) >= 9
    /\ SubSeq(s, 1, 6) = <<"t","o","d","a","y"," ">>
    /\ AllDigits(SubSeq(s, 7, Len(s) - 2))
    /\ s[Len(s) - 1] = "-"
    /\ s[Len(s)] \in {"y", "d", "m"}

\* the second alternative: \d{4}-\d{2}-\d{2} \d{4}-\d{2}-\d{2}
DateRangeBody(s) ==
    /\ Len(s) = 21
    /\ DateBody(SubSeq(s, 1, 10))
    /\ s[11] = " "
    /\ DateBody(SubSeq(s, 12, 21))

TimeframeBody(s) == TodayBody(s) \/ DateRangeBody(s) \/ s = <<"a","l","l">>

TIMEFRAME_PATTERN(s) == \E t \in BeforeDollar(s) : TimeframeBody(t)

\* validate_geo
validate_geo(geo) == IF Len(geo) = 0 THEN TRUE ELSE COUNTRY_CODE_PATTERN(geo)

\* validate_timeframe; "start_date, end_date = timeframe.split(' ')" raises
\* ValueError when the split does not give two parts
validate_timeframe(timeframe) ==
    IF TIMEFRAME_PATTERN(timeframe) THEN Returned(TRUE, << >>)
    ELSE IF \E i \in DOMAIN timeframe : timeframe[i] = " "
    THEN LET parts == split(timeframe, " ")
         IN  IF Len(parts) # 2
             THEN Raised(<<"too many values to unpack (expected 2)">>, << >>)
             ELSE Returned(DATE_PATTERN(parts[1]) /\ DATE_PATTERN(parts[2]), << >>)
    ELSE Returned(FALSE, << >>)

\* get_interest_over_time: "if len(keywords) > 5"
MaxKeywords == 5

\* what pytrends.interest_over_time returns when it returns
InterestFrame(o) == IF o = "rows" THEN << "2024-01-07", "2024-01-14" >> ELSE << >>

\* cli.get_interest_over_time with at most 4 keywords allowed
get_interest_over_time_MaxFour(keywords, timeframe, geo, o) ==
    LET tf  == validate_timeframe(timeframe)
        ups == << <<"TrendReq", << >>, "rows">>,
                  <<"interest_over_time", keywords, o>> >>
    IN  IF Len(keywords) = 0
        THEN Raised(<<"At least one keyword is required">>, << >>)
        ELSE IF Len(keywords) > MaxKeywords - 1
        THEN Raised(<<"Maximum 5 keywords are allowed">>, << >>)
        ELSE IF tf.raised THEN tf
        ELSE IF ~ tf.value
        THEN Raised(<<"Invalid timeframe format">>, << >>)
        ELSE IF Len(geo) # 0 /\ ~ validate_geo(geo)
        THEN Raised(<<"Invalid geo format">>, << >>)
        ELSE IF o = "raise"
        THEN Raised(ProviderError("interest_over_time"), ups)
        ELSE IF InterestFrame(o) = << >>
        THEN Returned([error |-> "No data found", keywords |-> keywords,
                       data |-> << >>], ups)
        ELSE Returned([error |-> Absent, keywords |-> keywords,
                       data |-> InterestFrame(o)], ups)

\* cli.get_interest_over_time, whose provider call ends as o
get_interest_over_time(keywords, timeframe, geo, o) ==
    LET tf  == validate_timeframe(timeframe)
        ups == << <<"TrendReq", << >>, "rows">>,
                  <<"interest_over_time", keywords, o>> >>
    IN  IF Len(keywords) = 0
        THEN Raised(<<"At least one keyword is required">>, << >>)
        ELSE IF Len(keywords) > MaxKeywords
        THEN Raised(<<"Maximum 5 keywords are allowed">>, << >>)
        ELSE IF tf.raised THEN tf
        ELSE IF ~ tf.value
        THEN Raised(<<"Invalid timeframe format">>, << >>)
        ELSE IF Len(geo) # 0 /\ ~ validate_geo(geo)
        THEN Raised(<<"Invalid geo format">>, << >>)
        ELSE IF o = "raise"
        THEN Raised(ProviderError("interest_over_time"), ups)
        ELSE IF InterestFrame(o) = << >>
        THEN Returned([error |-> "No data found", keywords |-> keywords,
                       data |-> << >>], ups)
        ELSE Returned([error |-> Absent, keywords |-> keywords,
                       data |-> InterestFrame(o)], ups)

----------------------------------------------------------------------------
(* Handler *)

\* no request has been handled yet
NoRequest == [path |-> <<"-">>, pn |-> << >>, query |-> << >>, at |-> -1,
              window |-> << >>]
NoResponse == [status |-> 0, handler |-> "none", upstream |-> << >>, body |-> "none",
               status_lines |-> << >>]

\* the response of a handler: the status the client reads, the handler that
\* ran, the provider calls made for it, the JSON body, and the status lines
\* sent with send_response or send_error
Response(status, handler, ups, body) ==
    [status |-> status, handler |-> handler, upstream |-> ups, body |-> body,
     status_lines |-> <<status>>]

\* BaseHTTPRequestHandler.send_error(429, "Too Many Requests") in do_GET
TooManyRequests == Response(429, "none", << >>, "Too Many Requests")

\* do_GET: the health-check branch
handle_health ==
    Response(200, "health", << >>, [status |-> "healthy", version |-> "1.0"])

\* handle_not_implemented: the paths of its "available_endpoints" list
AvailableEndpoints ==
    { <<"health">>, <<"search">>, <<"search", "combined">>, <<"autocomplete">>,
      <<"niche-topics">>, <<"trends">>,
      <<"trends", "interest-over-time">>,
      <<"trends", "multirange-interest-over-time">>,
      <<"trends", "historical-hourly-interest">>,
      <<"trends", "interest-by-region">>,
      <<"trends", "related-topics">>, <<"trends", "related-queries">>,
      <<"trends", "trending-searches">>,
      <<"trends", "realtime-trending-searches">>,
      <<"trends", "top-charts">>, <<"trends", "suggestions">>,
      <<"trends", "categories">> }

\* Handler.handle_not_implemented
handle_not_implemented ==
    Response(501, "handle_not_implemented", << >>,
             [status |-> "error", message |-> "Endpoint not implemented yet",
              available_endpoints |-> AvailableEndpoints])

\* the except branch of a handler: status 500 with str(e)
ServerError(handler, r) ==
    Response(500, handler, r.upstream, [status |-> "error", message |-> r.value])

\* Handler.handle_trending_searches
handle_trending_searches(pn, o1, o2) ==
    LET r == get_trending_searches(lower(pn), o1, o2)
    IN  IF r.raised THEN ServerError("handle_trending_searches", r)
        ELSE Response(200, "handle_trending_searches", r.upstream, r.value)

\* Handler.handle_realtime_trending_searches
handle_realtime_trending_searches(pn, o1, o2) ==
    LET r == get_realtime_trending_searches(pn, "all", o1, o2)
    IN  IF r.raised THEN ServerError("handle_realtime_trending_searches", r)
        ELSE Response(200, "handle_realtime_trending_searches", r.upstream, r.value)

\* a parameter the query string does not carry
Missing == <<"<absent>">>

\* the query parameters the handlers below read; a value is the parameter's
\* text, character by character, and query_type's value is one token
QueryFields == {"keywords", "keyword", "timeframe", "tz", "date",
                "year_start", "query_type", "num"}

\* the query of a request without parameters
NoQuery == [f \in QueryFields |-> Missing]

\* query.get(field, [default])[0]
Get(query, field, default) ==
    IF query[field] = Missing THEN default ELSE query[field]

\* the default values of the handlers
DefaultKeywords  == <<"b","i","t","c","o","i","n">>
DefaultTimeframe == <<"t","o","d","a","y"," ","3","-","m">>
DefaultTz        == <<"3","6","0">>
DefaultDate      == <<"2","0","2","1">>
DefaultYearStart == <<"2","0","2","2">>
DefaultNum       == <<"1","0">>

\* what a provider call of a handler returns when it returns
ProviderRows(o) == IF o = "rows" THEN << "row 1", "row 2" >> ELSE << >>

\* the handlers that read keywords, timeframe and tz, build the payload and
\* fetch one frame: handle_interest_over_time and the two of the same shape
frame_handler(handler, method, query, o) ==
    LET keywords  == split(Get(query, "keywords", DefaultKeywords), ",")
        timeframe == Get(query, "timeframe", DefaultTimeframe)
        tz        == int(Get(query, "tz", DefaultTz))
        ups       == << <<method, keywords, o>> >>
    IN  IF tz.raised THEN ServerError(handler, tz)
        ELSE IF o = "raise"
        THEN ServerError(handler, Raised(ProviderError(method), ups))
        ELSE Response(200, handler, ups,
                      [keywords |-> keywords, timeframe |-> timeframe,
                       data |-> ProviderRows(o)])

\* Handler.handle_interest_over_time
handle_interest_over_time(query, o) ==
    frame_handler("handle_interest_over_time", "interest_over_time", query, o)

\* Handler.handle_multirange_interest_over_time
handle_multirange_interest_over_time(query, o) ==
    frame_handler("handle_multirange_interest_over_time",
                  "multirange_interest_over_time", query, o)

\* Handler.handle_interest_by_region
handle_interest_by_region(query, o) ==
    frame_handler("handle_interest_by_region", "interest_by_region", query, o)

\* Handler.handle_historical_hourly_interest: the date parameters are parsed
\* in a try of their own that answers 400
handle_historical_hourly_interest(query, o) ==
    LET handler    == "handle_historical_hourly_interest"
        keywords   == split(Get(query, "keywords", DefaultKeywords), ",")
        year_start == int(Get(query, "year_start", DefaultYearStart))
        tz         == int(Get(query, "tz", DefaultTz))
        ups        == << <<"get_historical_interest", keywords, o>> >>
    IN  IF year_start.raised
        THEN Response(400, handler, << >>,
                      [status |-> "error",
                       message |-> "Date parameters must be integers"])
        ELSE IF tz.raised THEN ServerError(handler, tz)
        ELSE IF o = "raise"
        THEN ServerError(handler,
                         Raised(ProviderError("get_historical_interest"), ups))
        ELSE Response(200, handler, ups,
                      [keywords |-> keywords, data |-> ProviderRows(o)])

\* Handler.handle_top_charts
handle_top_charts(query, o) ==
    LET handler == "handle_top_charts"
        date    == int(Get(query, "date", DefaultDate))
        tz      == int(Get(query, "tz", DefaultTz))
        ups     == << <<"top_charts", Get(query, "date", DefaultDate), o>> >>
    IN  IF date.raised THEN ServerError(handler, date)
        ELSE IF tz.raised THEN ServerError(handler, tz)
        ELSE IF o = "raise"
        THEN ServerError(handler, Raised(ProviderError("top_charts"), ups))
        ELSE Response(200, handler, ups,
                      [date |-> date.value, data |-> ProviderRows(o)])

\* Handler.handle_suggestions
handle_suggestions(query, o) ==
    LET handler == "handle_suggestions"
        keyword == Get(query, "keyword", DefaultKeywords)
        tz      == int(Get(query, "tz", DefaultTz))
        ups     == << <<"suggestions", keyword, o>> >>
    IN  IF tz.raised THEN ServerError(handler, tz)
        ELSE IF o = "raise"
        THEN ServerError(handler, Raised(ProviderError("suggestions"), ups))
        ELSE Response(200, handler, ups,
                      [keyword |-> keyword, suggestions |-> ProviderRows(o)])

\* Handler.handle_categories
handle_categories(query, o) ==
    LET handler == "handle_categories"
        tz      == int(Get(query, "tz", DefaultTz))
        ups     == << <<"categories", << >>, o>> >>
    IN  IF tz.raised THEN ServerError(handler, tz)
        ELSE IF o = "raise"
        THEN ServerError(handler, Raised(ProviderError("categories"), ups))
        ELSE Response(200, handler, ups, [categories |-> ProviderRows(o)])

\* the handlers that need a search keyword: the integer parameter (num, or
\* depth for the niche topics) is parsed, a request without the keyword is
\* answered 400, and a provider that raises gives 500 unless the function
\* called swallows the exception
keyword_handler(handler, method, swallows, query, o) ==
    LET keyword == Get(query, "keyword", << >>)
        num     == int(Get(query, "num", DefaultNum))
        ups     == << <<method, keyword, o>> >>
    IN  IF num.raised THEN ServerError(handler, num)
        ELSE IF Len(keyword) = 0
        THEN Response(400, handler, << >>,
                      [error |-> "Keyword parameter is required"])
        ELSE IF o = "raise" /\ ~ swallows
        THEN ServerError(handler, Raised(ProviderError(method), ups))
        ELSE Response(200, handler, ups,
                      [keyword |-> keyword, results |-> ProviderRows(o)])

\* Handler.handle_autocomplete; get_google_suggestions returns [] on failure
handle_autocomplete(query, o) ==
    keyword_handler("handle_autocomplete", "get_google_suggestions", TRUE,
                    query, o)

\* Handler.handle_google_search
handle_google_search(query, o) ==
    keyword_handler("handle_google_search", "google_search", FALSE, query, o)

\* Handler.handle_combined_search
handle_combined_search(query, o) ==
    keyword_handler("handle_combined_search", "search_and_analyze", FALSE,
                    query, o)

\* Handler.handle_niche_topics; get_niche_topics catches the failures of
\* its provider
handle_niche_topics(query, o) ==
    keyword_handler("handle_niche_topics", "get_niche_topics", TRUE, query, o)

\* how a call of pytrends.related_topics or related_queries ends: it raises,
\* or its dict has no key for the keyword ("missing"), or holds None
\* ("null") or {} ("empty") under it, or a dict whose top and rising are
\* both None ("nulls"), or whose rising is None ("top_only"), or two frames
RelatedOutcomes == {"raise", "missing", "null", "empty", "nulls",
                    "top_only", "rows"}

\* data[kw] of such a call: whether kw is a key, whether the value is a dict
\* with the keys top and rising, and the two values
related_data(o) ==
    [present  |-> o # "missing",
     has_keys |-> o \in {"nulls", "top_only", "rows"},
     top      |-> [isNone  |-> o \notin {"top_only", "rows"},
                   records |-> IF o \in {"top_only", "rows"}
                               THEN << "top 1", "top 2" >> ELSE << >>],
     rising   |-> [isNone  |-> o # "rows",
                   records |-> IF o = "rows" THEN << "rising 1" >> ELSE << >>]]

\* "x.to_dict('records') if x is not None else []"
records_or_empty(x) == IF x.isNone THEN << >> ELSE x.records

\* the entry of a keyword built from data[kw]
related_entry(d) == [top    |-> records_or_empty(d.top),
                     rising |-> records_or_empty(d.rising)]

\* {"top": [], "rising": []}
EmptyEntry == [top |-> << >>, rising |-> << >>]

\* the set of the elements of a sequence
Range(s) == {s[i] : i \in DOMAIN s}

\* Handler.handle_related_topics: "if kw in data" then data[kw]['top'] is
\* read, which raises when data[kw] is None or has no such key
handle_related_topics(query, o) ==
    LET handler  == "handle_related_topics"
        keywords == split(Get(query, "keywords", DefaultKeywords), ",")
        tz       == int(Get(query, "tz", DefaultTz))
        ups      == << <<"related_topics", keywords, o>> >>
        d        == related_data(o)
    IN  IF tz.raised THEN ServerError(handler, tz)
        ELSE IF o = "raise"
        THEN ServerError(handler, Raised(ProviderError("related_topics"), ups))
        ELSE IF d.present /\ ~ d.has_keys
        THEN ServerError(handler, Raised(<<"'top'">>, ups))
        ELSE Response(200, handler, ups,
                      [keywords |-> keywords,
                       data |-> {<<kw, IF d.present THEN related_entry(d)
                                       ELSE EmptyEntry>> :
                                    kw \in Range(keywords)}])

\* Handler.handle_related_queries: "if kw in data and data[kw]" ... else the
\* empty entry
handle_related_queries(query, o) ==
    LET handler  == "handle_related_queries"
        keywords == split(Get(query, "keywords", DefaultKeywords), ",")
        tz       == int(Get(query, "tz", DefaultTz))
        ups      == << <<"related_queries", keywords, o>> >>
        d        == related_data(o)
    IN  IF tz.raised THEN ServerError(handler, tz)
        ELSE IF o = "raise"
        THEN ServerError(handler, Raised(ProviderError("related_queries"), ups))
        ELSE Response(200, handler, ups,
                      [keywords |-> keywords,
                       data |-> {<<kw, IF d.present /\ d.has_keys
                                       THEN related_entry(d)
                                       ELSE EmptyEntry>> :
                                    kw \in Range(keywords)}])

\* the except branch of handle_trends: status 500 with str(e) and a sample
TrendsServerError(r) ==
    Response(500, "handle_trends", r.upstream,
             [status |-> "error", message |-> r.value, sample |-> TRUE,
              data |-> << [date |-> "2025-03-21", value |-> 100] >>])

\* Handler.handle_trends, the legacy endpoint: in the related_queries branch
\* "if kw in data and data[kw]" has no else
handle_trends(query, o) ==
    LET keywords   == split(Get(query, "keywords", DefaultKeywords), ",")
        timeframe  == Get(query, "timeframe", DefaultTimeframe)
        query_type == Get(query, "query_type", <<"interest_over_time">>)[1]
        tz         == int(Get(query, "tz", DefaultTz))
        method     == IF query_type \in {"interest_over_time", "related_queries",
                                         "interest_by_region"}
                      THEN query_type ELSE "build_payload"
        ups        == << <<method, keywords, o>> >>
        d          == related_data(o)
        body(result) == [keywords |-> keywords, timeframe |-> timeframe,
                         query_type |-> query_type, data |-> result]
    IN  IF tz.raised THEN TrendsServerError(tz)
        ELSE IF o = "raise"
        THEN TrendsServerError(Raised(ProviderError(method), ups))
        ELSE IF query_type = "related_queries"
        THEN Response(200, "handle_trends", ups,
                      body({<<kw, related_entry(d)>> :
                               kw \in {k \in Range(keywords) :
                                          d.present /\ d.has_keys}}))
        ELSE IF query_type \in {"interest_over_time", "interest_by_region"}
        THEN Response(200, "handle_trends", ups, body(ProviderRows(o)))
        ELSE Response(200, "handle_trends", ups,
                      body([message |-> "Unsupported query type"]))

\* A path is the sequence of its segments: "/" is <<"">>, "/health" is
\* <<"health">>, "/trends/top-charts" is <<"trends", "top-charts">>.
Paths == { <<"">>, <<"health">>, <<"trends", "trending-searches">>,
           <<"trends", "realtime-trending-searches">>,
           <<"trends", "nothing">>, <<"nothing">> }

\* the paths whose handler reads pn and calls providers
TrendingPaths == { <<"trends", "trending-searches">>,
                   <<"trends", "realtime-trending-searches">> }

\* do_GET with every path below /trends/ that names no endpoint given to the
\* legacy handler
Route_TrendsPrefix(path, pn, query, o1, o2) ==
    IF path = <<"health">> \/ path = <<"">> THEN handle_health
    ELSE IF path = <<"search">> THEN handle_google_search(query, o1)
    ELSE IF path = <<"search", "combined">> THEN handle_combined_search(query, o1)
    ELSE IF path = <<"niche-topics">> THEN handle_niche_topics(query, o1)
    ELSE IF path = <<"autocomplete">> THEN handle_autocomplete(query, o1)
    ELSE IF path = <<"trends">> THEN handle_trends(query, o1)
    ELSE IF Len(path) >= 2 /\ path[1] = "trends"
    THEN LET endpoint == Tail(path)
         IN  IF endpoint = <<"interest-over-time">>
             THEN handle_interest_over_time(query, o1)
             ELSE IF endpoint = <<"multirange-interest-over-time">>
             THEN handle_multirange_interest_over_time(query, o1)
             ELSE IF endpoint = <<"historical-hourly-interest">>
             THEN handle_historical_hourly_interest(query, o1)
             ELSE IF endpoint = <<"interest-by-region">>
             THEN handle_interest_by_region(query, o1)
             ELSE IF endpoint = <<"related-topics">>
             THEN handle_related_topics(query, o1)
             ELSE IF endpoint = <<"related-queries">>
             THEN handle_related_queries(query, o1)
             ELSE IF endpoint = <<"trending-searches">>
             THEN handle_trending_searches(pn, o1, o2)
             ELSE IF endpoint = <<"realtime-trending-searches">>
             THEN handle_realtime_trending_searches(pn, o1, o2)
             ELSE IF endpoint = <<"top-charts">>
             THEN handle_top_charts(query, o1)
             ELSE IF endpoint = <<"suggestions">>
             THEN handle_suggestions(query, o1)
             ELSE IF endpoint = <<"categories">>
             THEN handle_categories(query, o1)
             ELSE handle_trends(query, o1)
    ELSE handle_not_implemented

\* do_GET: the route table below the admission check; "endpoint = path[8:]"
\* is the path without its first segment
Route(path, pn, query, o1, o2) ==
    IF path = <<"health">> \/ path = <<"">> THEN handle_health
    ELSE IF path = <<"search">> THEN handle_google_search(query, o1)
    ELSE IF path = <<"search", "combined">> THEN handle_combined_search(query, o1)
    ELSE IF path = <<"niche-topics">> THEN handle_niche_topics(query, o1)
    ELSE IF path = <<"autocomplete">> THEN handle_autocomplete(query, o1)
    ELSE IF path = <<"trends">> THEN handle_trends(query, o1)
    ELSE IF Len(path) >= 2 /\ path[1] = "trends"
    THEN LET endpoint == Tail(path)
         IN  IF endpoint = <<"interest-over-time">>
             THEN handle_interest_over_time(query, o1)
             ELSE IF endpoint = <<"multirange-interest-over-time">>
             THEN handle_multirange_interest_over_time(query, o1)
             ELSE IF endpoint = <<"historical-hourly-interest">>
             THEN handle_historical_hourly_interest(query, o1)
             ELSE IF endpoint = <<"interest-by-region">>
             THEN handle_interest_by_region(query, o1)
             ELSE IF endpoint = <<"related-topics">>
             THEN handle_related_topics(query, o1)
             ELSE IF endpoint = <<"related-queries">>
             THEN handle_related_queries(query, o1)
             ELSE IF endpoint = <<"trending-searches">>
             THEN handle_trending_searches(pn, o1, o2)
             ELSE IF endpoint = <<"realtime-trending-searches">>
             THEN handle_realtime_trending_searches(pn, o1, o2)
             ELSE IF endpoint = <<"top-charts">>
             THEN handle_top_charts(query, o1)
             ELSE IF endpoint = <<"suggestions">>
             THEN handle_suggestions(query, o1)
             ELSE IF endpoint = <<"categories">>
             THEN handle_categories(query, o1)
             ELSE handle_not_implemented
    ELSE handle_not_implemented

\* how writing the body to the client ends: it is sent, or wfile.write raises
\* because the connection is gone
WriteOutcomes == {"sent", "broken"}

\* the handlers whose send_response and wfile.write are inside their
\* "try ... except Exception"
InTry(handler) == handler \notin {"none", "health", "handle_not_implemented"}

\* the end of a handler: when wfile.write raises inside the try, after the
\* status line of the answer r, the except branch sends its own status line;
\* when it raises in the except branch or outside a try, the exception
\* leaves the handler
write_body(r, w) ==
    IF w = "broken" /\ InTry(r.handler) /\ r.status # 500
    THEN [r EXCEPT !.status_lines = <<r.status, 500>>]
    ELSE r

\* do_GET with the call recorded before the admission check
do_GET_RecordFirst(path, pn, query, o1, o2, w) ==
    /\ req' = [path |-> path, pn |-> pn, query |-> query, at |-> now,
               window |-> calls]
    /\ calls' = add_call(calls, now, time_frame)
    /\ IF ~ is_allowed(calls, max_calls)
       THEN resp' = TooManyRequests
       ELSE resp' = write_body(Route(path, pn, query, o1, o2), w)
    /\ UNCHANGED <<max_calls, time_frame, now, exploreVars, callVars>>

\* Handler.do_GET, for a request with the given path, pn parameter and other
\* query parameters, whose provider calls end as o1 (first call) and o2
\* (second call) and whose body is written with outcome w
do_GET(path, pn, query, o1, o2, w) ==
    /\ req' = [path |-> path, pn |-> pn, query |-> query, at |-> now,
               window |-> calls]
    /\ IF ~ is_allowed(calls, max_calls)
       THEN /\ calls' = calls
            /\ resp' = TooManyRequests
       ELSE /\ calls' = add_call(calls, now, time_frame)
            /\ resp' = write_body(Route(path, pn, query, o1, o2), w)
    /\ UNCHANGED <<max_calls, time_frame, now, exploreVars, callVars>>

\* time passes between two requests
Tick ==
    /\ now < MaxTime
    /\ now' = now + 1
    /\ UNCHANGED <<max_calls, time_frame, calls, req, resp, exploreVars, callVars>>

\* the explorer is not running
ExploreIdle ==
    /\ depth = 0
    /\ results_per_level = 0
    /\ suggestionFn = << >>
    /\ nodes = << >>
    /\ processing_queue = << >>
    /\ pc = "idle"
    /\ pacing = "no call"

\* no function call is under check
NoCall == [fn |-> "none", arg |-> << >>]
NotReturned == [raised |-> FALSE, value |-> << >>, upstream |-> << <<"pending">> >>]
CallIdle ==
    /\ fcall = NoCall
    /\ fresult = NotReturned

\* rate_limiter = RateLimiter(max_calls, time_frame) at module load
Init ==
    /\ max_calls \in 1..MaxCallsBound
    /\ time_frame \in 1..MaxWindow
    /\ calls = << >>
    /\ now = 0
    /\ req = NoRequest
    /\ resp = NoResponse
    /\ ExploreIdle
    /\ CallIdle

\* a request for one of the trending-search endpoints
TrendingRequest ==
    \E path \in TrendingPaths, pn \in PnInputs, o1 \in Outcomes, o2 \in Outcomes :
        do_GET(path, pn, NoQuery, o1, o2, "sent")

\* a request for any other path
OtherRequest ==
    \E path \in Paths \ TrendingPaths : do_GET(path, << >>, NoQuery, "raise", "raise", "sent")

Next == Tick \/ TrendingRequest \/ OtherRequest

Spec == Init /\ [][Next]_vars

----------------------------------------------------------------------------
(* The handlers behind the route table, with one limiter configuration *)

\* the paths tried: every route of do_GET and paths that are none
AllPaths ==
    AvailableEndpoints
    \cup { <<"">>, <<"nothing">>, <<"Health">>, <<"search", "">>,
           <<"trends", "">>, <<"trends", "nothing">>,
           <<"trends", "top-charts", "x">>, <<"trends", "trends">> }

SixKeywords == <<"a",",","b",",","c",",","d",",","e",",","f">>
TwoKeywords == <<"a",",","b">>
NotANumber  == <<"a","b","c">>

\* the paths whose handlers take the parameters that carry constraints
ParamPaths == { <<"trends", "interest-over-time">>, <<"trends", "top-charts">>,
                <<"trends", "historical-hourly-interest">> }

\* the queries tried on such a path
ParamQueries(path) ==
    IF path = <<"trends", "interest-over-time">>
    THEN {[NoQuery EXCEPT !.keywords = k, !.timeframe = t, !.tz = z] :
             k \in {Missing, SixKeywords},
             t \in {Missing, <<"i","n","v","a","l","i","d">>},
             z \in {Missing, NotANumber}}
    ELSE IF path = <<"trends", "top-charts">>
    THEN {[NoQuery EXCEPT !.date = d, !.tz = z] :
             d \in {Missing, <<"2","0","0","0">>, NotANumber},
             z \in {Missing, NotANumber}}
    ELSE {[NoQuery EXCEPT !.year_start = y, !.tz = z] :
             y \in {Missing, NotANumber}, z \in {Missing, NotANumber}}

\* a request for an endpoint with constrained parameters
ParamRequest ==
    \E path \in ParamPaths, o \in Outcomes :
        \E query \in ParamQueries(path) :
            do_GET(path, << >>, query, o, "raise", "sent")

\* the paths that answer with related topics or queries
RelatedPaths == { <<"trends", "related-topics">>, <<"trends", "related-queries">>,
                  <<"trends">> }

\* a request for related topics or queries, the legacy endpoint included
RelatedRequest ==
    \E path \in RelatedPaths, o \in RelatedOutcomes,
       k \in {Missing, TwoKeywords},
       t \in {Missing, <<"related_queries">>, <<"interest_by_region">>,
              <<"other">>} :
        /\ path # <<"trends">> => t = Missing
        /\ do_GET(path, << >>, [NoQuery EXCEPT !.keywords = k, !.query_type = t],
                  o, "raise", "sent")

\* a request for any path, with or without a search keyword
RouteRequest ==
    \E path \in AllPaths, o \in Outcomes, k \in {Missing, DefaultKeywords} :
        do_GET(path, <<"U", "S">>, [NoQuery EXCEPT !.keyword = k], o, o, "sent")

\* a request for any path whose client is gone when the body is written
BrokenPipeRequest ==
    \E path \in AllPaths, o \in Outcomes, k \in {Missing, DefaultKeywords} :
        do_GET(path, <<"U", "S">>, [NoQuery EXCEPT !.keyword = k], o, o, "broken")

\* the limiter of the largest configuration tried
InitHandlers ==
    /\ max_calls = MaxCallsBound
    /\ time_frame = MaxWindow
    /\ calls = << >>
    /\ now = 0
    /\ req = NoRequest
    /\ resp = NoResponse
    /\ ExploreIdle
    /\ CallIdle

NextHandlers ==
    \/ TrendingRequest
    \/ ParamRequest
    \/ RelatedRequest
    \/ RouteRequest
    \/ BrokenPipeRequest

SpecHandlers == InitHandlers /\ [][NextHandlers]_vars

----------------------------------------------------------------------------
(* get_keyword_suggestions and get_niche_topics *)

\* handle_niche_topics: "if depth > 3: depth = 3"
MaxDepth == 3

\* the keywords the suggestion provider knows; the first is the seed
seed_keyword == "bitcoin"
Keywords == {"bitcoin", "btc"}

\* the sequences over S of length at most n
SeqUpTo(S, n) == UNION {[1..k -> S] : k \in 0..n}

\* the answers of the provider to one keyword: a failed request (no HTTP 200,
\* or an exception), or the list data[1] of an HTTP 200 response
ProviderAnswers ==
    {[ok |-> FALSE, list |-> << >>]} \cup
    {[ok |-> TRUE, list |-> l] : l \in SeqUpTo(Keywords, MaxSuggLen)}

\* get_keyword_suggestions without the [:num_results] slice
get_keyword_suggestions_NoSlice(fn, keyword, num_results) ==
    IF fn[keyword].ok
    THEN Returned(fn[keyword].list, <<keyword>>)
    ELSE Raised(<<"Failed to get suggestions for ", keyword>>, <<keyword>>)

\* get_keyword_suggestions: the first num_results suggestions of the answer,
\* ValueError when the request failed
get_keyword_suggestions(fn, keyword, num_results) ==
    IF fn[keyword].ok
    THEN Returned(SliceTo(fn[keyword].list, num_results), <<keyword>>)
    ELSE Raised(<<"Failed to get suggestions for ", keyword>>, <<keyword>>)

\* topic_tree is the sequence nodes: node 1 is the root, a node's subtopics
\* is the sequence of the indices of its children, and parent_list in a queue
\* item is the index of the node whose subtopics list it is.
TopicNode(keyword) == [keyword |-> keyword, subtopics |-> << >>]

\* get_niche_topics, up to the while loop
StartExplore(d, rpl, fn) ==
    /\ depth = d
    /\ results_per_level = rpl
    /\ suggestionFn = fn
    /\ nodes = << TopicNode(seed_keyword) >>
    /\ processing_queue =
           << [keyword |-> seed_keyword, current_depth |-> 0, parent_list |-> 1] >>
    /\ pc = "loop"
    /\ pacing = "no call"

\* one iteration of the while loop: "if current_depth >= depth: continue"
ExploreSkip ==
    /\ pc = "loop"
    /\ processing_queue # << >>
    /\ Head(processing_queue).current_depth >= depth
    /\ processing_queue' = Tail(processing_queue)
    /\ UNCHANGED <<depth, results_per_level, suggestionFn, nodes, pc, pacing,
                   gatewayVars, callVars>>

\* ExploreExpand with the new items put at the front of the queue
ExploreExpand_Stack ==
    /\ pc = "loop"
    /\ processing_queue # << >>
    /\ LET item == Head(processing_queue)
           r    == get_keyword_suggestions(suggestionFn, item.keyword,
                                           results_per_level)
           sugg == r.value
           base == Len(nodes)
           kids == [i \in 1..Len(sugg) |-> base + i]
       IN  /\ item.current_depth < depth
           /\ ~ r.raised
           /\ nodes' =
                 [n \in 1..(base + Len(sugg)) |->
                    IF n > base THEN TopicNode(sugg[n - base])
                    ELSE IF n = item.parent_list
                    THEN [nodes[n] EXCEPT !.subtopics = @ \o kids]
                    ELSE nodes[n]]
           /\ processing_queue' =
                 (IF item.current_depth < depth - 1
                  THEN [i \in 1..Len(sugg) |->
                          [keyword |-> sugg[i],
                           current_depth |-> item.current_depth + 1,
                           parent_list |-> base + i]]
                  ELSE << >>) \o Tail(processing_queue)
    /\ pacing' = "slept"
    /\ UNCHANGED <<depth, results_per_level, suggestionFn, pc, gatewayVars, callVars>>

\* one iteration of the while loop: the suggestions arrive, a node is appended
\* to parent_list for each, and each is queued unless it is on the last level
ExploreExpand ==
    /\ pc = "loop"
    /\ processing_queue # << >>
    /\ LET item == Head(processing_queue)
           r    == get_keyword_suggestions(suggestionFn, item.keyword,
                                           results_per_level)
           sugg == r.value
           base == Len(nodes)
           kids == [i \in 1..Len(sugg) |-> base + i]
       IN  /\ item.current_depth < depth
           /\ ~ r.raised
           /\ nodes' =
                 [n \in 1..(base + Len(sugg)) |->
                    IF n > base THEN TopicNode(sugg[n - base])
                    ELSE IF n = item.parent_list
                    THEN [nodes[n] EXCEPT !.subtopics = @ \o kids]
                    ELSE nodes[n]]
           /\ processing_queue' =
                 Tail(processing_queue) \o
                 (IF item.current_depth < depth - 1
                  THEN [i \in 1..Len(sugg) |->
                          [keyword |-> sugg[i],
                           current_depth |-> item.current_depth + 1,
                           parent_list |-> base + i]]
                  ELSE << >>)
    /\ pacing' = "slept"
    /\ UNCHANGED <<depth, results_per_level, suggestionFn, pc, gatewayVars, callVars>>

\* ExploreFail that queues the failed keyword again instead of dropping it
ExploreFail_Retry ==
    /\ pc = "loop"
    /\ processing_queue # << >>
    /\ LET item == Head(processing_queue)
       IN  /\ item.current_depth < depth
           /\ get_keyword_suggestions(suggestionFn, item.keyword,
                                      results_per_level).raised
    /\ processing_queue' = Append(Tail(processing_queue), Head(processing_queue))
    /\ pacing' = "not slept"
    /\ UNCHANGED <<depth, results_per_level, suggestionFn, nodes, pc, gatewayVars, callVars>>

\* ExploreFail that gives up the whole exploration on a failure
ExploreFail_Abort ==
    /\ pc = "loop"
    /\ processing_queue # << >>
    /\ LET item == Head(processing_queue)
       IN  /\ item.current_depth < depth
           /\ get_keyword_suggestions(suggestionFn, item.keyword,
                                      results_per_level).raised
    /\ processing_queue' = << >>
    /\ pacing' = "not slept"
    /\ UNCHANGED <<depth, results_per_level, suggestionFn, nodes, pc, gatewayVars, callVars>>

\* one iteration of the while loop: get_keyword_suggestions raises, the
\* except branch logs and continues
ExploreFail ==
    /\ pc = "loop"
    /\ processing_queue # << >>
    /\ LET item == Head(processing_queue)
       IN  /\ item.current_depth < depth
           /\ get_keyword_suggestions(suggestionFn, item.keyword,
                                      results_per_level).raised
    /\ processing_queue' = Tail(processing_queue)
    /\ pacing' = "not slept"
    /\ UNCHANGED <<depth, results_per_level, suggestionFn, nodes, pc, gatewayVars, callVars>>

\* the queue is empty: return topic_tree
ExploreReturn ==
    /\ pc = "loop"
    /\ processing_queue = << >>
    /\ pc' = "done"
    /\ UNCHANGED <<depth, results_per_level, suggestionFn, nodes,
                   processing_queue, pacing, gatewayVars, callVars>>

\* the limiter at rest
GatewayIdle ==
    /\ max_calls = 1
    /\ time_frame = 1
    /\ calls = << >>
    /\ now = 0
    /\ req = NoRequest
    /\ resp = NoResponse

\* a call get_niche_topics(seed_keyword, depth, results_per_level) with the
\* arguments handle_niche_topics can pass and any suggestion provider
InitExplore ==
    /\ GatewayIdle
    /\ CallIdle
    /\ \E d \in 0..MaxDepth, rpl \in -1..MaxResults,
          fn \in [Keywords -> ProviderAnswers] : StartExplore(d, rpl, fn)

NextExplore == ExploreSkip \/ ExploreExpand \/ ExploreFail \/ ExploreReturn

SpecExplore == InitExplore /\ [][NextExplore]_vars

\* get_niche_topics runs to its end once called: the while loop is a
\* sequential program that keeps taking steps
SpecExploreFair == InitExplore /\ [][NextExplore]_vars /\ WF_vars(NextExplore)

----------------------------------------------------------------------------
(* Function calls checked on their own: a call is drawn from the inputs   *)
(* of its function, and one action applies the function to it.            *)

\* how far the integers tried reach beyond the limits the code tests
IntSpan == 2

\* handle_niche_topics: "if results_per_level > 10: results_per_level = 10"
MaxResultsPerLevel == 10

\* handle_niche_topics: the depth and results_per_level it passes to
\* get_niche_topics and echoes in the response, for the integers d and r of
\* the query string
niche_topics_params(d, r) ==
    [depth |-> IF d > MaxDepth THEN MaxDepth ELSE d,
     results_per_level |-> IF r > MaxResultsPerLevel THEN MaxResultsPerLevel ELSE r]

\* the integer depth and results_per_level values a query may carry
NicheParamInputs ==
    {[fn |-> "niche_topics_params", arg |-> <<d, r>>] :
        d \in (0 - IntSpan)..(MaxDepth + IntSpan),
        r \in (0 - IntSpan)..(MaxResultsPerLevel + IntSpan)}

\* handle_niche_topics reads and limits its two integer parameters
CallNicheParams ==
    /\ fcall.fn = "niche_topics_params"
    /\ fresult.upstream = NotReturned.upstream
    /\ fresult' = Returned(niche_topics_params(fcall.arg[1], fcall.arg[2]), << >>)
    /\ UNCHANGED <<fcall, gatewayVars, exploreVars>>

\* the spellings of s in every mix of upper and lower case
CaseVariants(s) ==
    {[i \in DOMAIN s |-> IF m[i] THEN upper(<<s[i]>>)[1] ELSE lower(<<s[i]>>)[1]] :
        m \in [DOMAIN s -> BOOLEAN]}

\* no alias
NoAlias == << << >>, << >> >>

\* pn values that are neither an alias name nor the code of one
StrayPnInputs ==
    { <<"u", "s", "a">>, <<"X", "X">>, <<"u", "k">>, <<"j", "p", "n">>,
      <<"d", "e", "n", "m", "a", "r", "k">>, <<"U">>, << >> }

\* the pn values tried: every alias name and every alias code in every letter
\* case, each with the alias it spells, and the stray ones
NormalizePnInputs ==
    UNION {{[fn |-> "normalize_pn", arg |-> <<v, a>>] :
               v \in CaseVariants(a[1]) \cup CaseVariants(a[2])} :
           a \in country_map}
    \cup {[fn |-> "normalize_pn", arg |-> <<v, NoAlias>>] : v \in StrayPnInputs}

\* get_realtime_trending_searches normalises pn
CallNormalizePn ==
    /\ fcall.fn = "normalize_pn"
    /\ fresult.upstream = NotReturned.upstream
    /\ fresult' = Returned(normalize_pn(fcall.arg[1]), << >>)
    /\ UNCHANGED <<fcall, gatewayVars, exploreVars>>

\* the longest decimal number tried in a "today N-u" timeframe
MaxDigits == 2

\* the decimal numbers of at most n digits, as strings
DigitStrings(n) ==
    UNION {[1..k -> {Digits[i] : i \in DOMAIN Digits}] : k \in 1..n}

\* the string "today N-u"
TodayString(N, u) == <<"t","o","d","a","y"," ">> \o N \o <<"-", u>>

\* the string "YYYY-MM-DD" with the eight characters of f
DateString(f) ==
    <<f[1], f[2], f[3], f[4], "-", f[5], f[6], "-", f[7], f[8]>>

\* two dates joined by one space
RangeString(a, b) == a \o <<" ">> \o b

\* dates written with the digits 0 and 9 only, and two calendar dates
EdgeDates == {DateString(f) : f \in [1..8 -> {"0", "9"}]}
CalendarDates == { <<"2","0","2","2","-","0","1","-","0","1">>,
                   <<"2","0","2","2","-","0","2","-","0","1">> }

\* strings that are neither of the form "today N-u" nor a date range
OtherTimeframes ==
    { <<"a","l","l">>,
      <<"t","o","d","a","y"," ","3","-","w">>,
      <<"t","o","d","a","y"," ","-","m">>,
      <<"t","o","d","a","y"," ","3","m">>,
      <<"t","o","d","a","y"," ","3","-","m","\n">>,
      <<"n","o","w"," ","7","-","d">>,
      <<"2","0","2","2","-","0","1","-","0","1">>,
      <<"2","0","2","2","-","1","-","0","1"," ","2","0","2","2","-","0","2","-","0","1">>,
      <<"a"," ","b">>, <<"a"," ","b"," ","c">>, << >> }

\* the timeframes tried, each with the form it was written in
TimeframeInputs ==
    {[fn |-> "validate_timeframe", arg |-> <<TodayString(N, u), "today">>] :
        N \in DigitStrings(MaxDigits), u \in {"y", "m", "d"}}
    \cup {[fn |-> "validate_timeframe", arg |-> <<RangeString(a, b), "range">>] :
             a \in EdgeDates, b \in CalendarDates}
    \cup {[fn |-> "validate_timeframe", arg |-> <<RangeString(b, a), "range">>] :
             a \in EdgeDates, b \in CalendarDates}
    \cup {[fn |-> "validate_timeframe",
           arg |-> <<<<"i","n","v","a","l","i","d">>, "invalid">>]}
    \cup {[fn |-> "validate_timeframe", arg |-> <<s, "other">>] :
             s \in OtherTimeframes}

\* validate_timeframe is applied to a string
CallValidateTimeframe ==
    /\ fcall.fn = "validate_timeframe"
    /\ fresult.upstream = NotReturned.upstream
    /\ fresult' = validate_timeframe(fcall.arg[1])
    /\ UNCHANGED <<fcall, gatewayVars, exploreVars>>

\* a list of n keywords
KeywordList(n) == [i \in 1..n |-> "bitcoin"]

\* timeframes and geos, each with whether it is well formed
TimeframeSamples ==
    { <<TodayString(<<"3">>, "m"), TRUE>>,
      <<RangeString(DateString([i \in 1..8 |-> "0"]),
                    DateString([i \in 1..8 |-> "9"])), TRUE>>,
      <<<<"i","n","v","a","l","i","d">>, FALSE>>,
      <<<<"a"," ","b"," ","c">>, FALSE>> }
GeoSamples ==
    { << << >>, TRUE>>, <<<<"U","S">>, TRUE>>,
      <<<<"U","S","-","N","Y">>, TRUE>>,
      <<<<"u","s">>, FALSE>>, <<<<"U","S","-","N">>, FALSE>> }

\* the calls of get_interest_over_time tried
InterestInputs ==
    {[fn |-> "get_interest_over_time",
      arg |-> <<KeywordList(n), tf, geo, o>>] :
        n \in 0..(MaxKeywords + IntSpan), tf \in TimeframeSamples,
        geo \in GeoSamples, o \in Outcomes}

\* cli.get_interest_over_time is called
CallGetInterestOverTime ==
    /\ fcall.fn = "get_interest_over_time"
    /\ fresult.upstream = NotReturned.upstream
    /\ fresult' = get_interest_over_time(fcall.arg[1], fcall.arg[2][1],
                                         fcall.arg[3][1], fcall.arg[4])
    /\ UNCHANGED <<fcall, gatewayVars, exploreVars>>

\* the call has been applied
Called(fn) == fcall.fn = fn /\ fresult.upstream # NotReturned.upstream

CallInputs == NicheParamInputs \cup NormalizePnInputs \cup TimeframeInputs
                 \cup InterestInputs

InitCall ==
    /\ GatewayIdle
    /\ ExploreIdle
    /\ fcall \in CallInputs
    /\ fresult = NotReturned

NextCall == \/ CallNicheParams
            \/ CallNormalizePn
            \/ CallValidateTimeframe
            \/ CallGetInterestOverTime

SpecCall == InitCall /\ [][NextCall]_vars

----------------------------------------------------------------------------
(* Properties of the rate limiter and the dispatcher *)

\* a request has been handled
Handled == req # NoRequest

\* the timestamps of the window the last request met that were still inside
\* the time frame when it arrived
LiveIn(r) == SelectSeq(r.window, LAMBDA call : call > r.at - time_frame)

\* C1: the limiter recovers. A request that meets fewer than max_calls
\* timestamps is admitted, one that meets max_calls timestamps all inside the
\* time frame is denied, and one that meets only timestamps older than the
\* time frame is admitted again.
C1_LimiterRecovers ==
    Handled =>
        /\ (Len(req.window) < max_calls => resp.status # 429)
        /\ (Len(LiveIn(req)) >= max_calls => resp.status = 429)
        /\ (LiveIn(req) = << >> => resp.status # 429)

\* C2: a GET /health request is answered with 200 in every state of the
\* window.
C2_HealthAlways200 ==
    (Handled /\ req.path = <<"health">>) => resp.status = 200

\* C3: handling a health-check request leaves the window as it was.
C3_HealthLeavesWindow ==
    (Handled /\ req.path \in {<<"health">>, <<"">>}) => calls = req.window

\* C4: a request that is_allowed denies gets the fixed 429 response, the
\* window stays as it was, and no handler and no provider is invoked.
C4_DeniedNotRecorded ==
    (Handled /\ ~ is_allowed(req.window, max_calls)) =>
        /\ resp.status = 429
        /\ resp = TooManyRequests
        /\ calls = req.window
        /\ resp.handler = "none"
        /\ resp.upstream = << >>

\* C4 witness: a request for a trending endpoint has been denied
C4_Witness ==
    /\ Handled
    /\ req.path \in TrendingPaths
    /\ ~ is_allowed(req.window, max_calls)
    /\ resp.status = 429

\* C5: the list whose length the admission check compares with max_calls
\* holds no timestamp older than now - time_frame.
C5_CheckedWindowPruned ==
    Handled => \A i \in DOMAIN req.window : req.window[i] > req.at - time_frame

\* C27: with the requests handled one after the other, the window never
\* holds more than max_calls timestamps, whatever the requests and however
\* time advances.
C27_WindowAtMostMaxCalls == Len(calls) <= max_calls

C27_Witness ==
    /\ Handled
    /\ Len(calls) = max_calls
    /\ max_calls > 1
    /\ calls[1] < calls[Len(calls)]
    /\ resp.status # 429

----------------------------------------------------------------------------
(* Properties of the trending-search endpoints *)

\* the last request was admitted and ran the realtime handler past validation
RealtimeRan ==
    /\ Handled
    /\ resp.handler = "handle_realtime_trending_searches"
    /\ resp.upstream # << >>

\* every provider call of the last request raised
AllUpstreamFailed ==
    /\ resp.upstream # << >>
    /\ \A i \in DOMAIN resp.upstream : resp.upstream[i][3] = "raise"

\* C6: with a supported country, the daily source is attempted when the
\* realtime call raises and also when it returns an empty result.
C6_DailyOnFailureOrEmpty ==
    (RealtimeRan /\ resp.upstream[1][3] \in {"raise", "empty"}) =>
        /\ Len(resp.upstream) = 2
        /\ resp.upstream[2][1] = "today_searches"

\* C7: when the realtime call and the daily call both raised, the outcome has
\* empty data and a note, and no placeholder record.
C7_ExhaustedIsEmptyWithNote ==
    (RealtimeRan /\ AllUpstreamFailed /\ Len(resp.upstream) = 2) =>
        /\ resp.body.data = << >>
        /\ resp.body.note # Absent

\* C8: for both trending-search endpoints, failure of every provider call is
\* answered with status 200, never 500.
C8_ExhaustedIs200 ==
    (Handled /\ req.path \in TrendingPaths /\ AllUpstreamFailed) =>
        resp.status = 200

\* the positions of the calls of the daily source among the provider calls
\* of the last request
TodayCalls == {i \in DOMAIN resp.upstream : resp.upstream[i][1] = "today_searches"}

\* C22: in the realtime chain the daily source is called at most once, only
\* right after the realtime call, and only when that call did not return a
\* non-empty result.
C22_DailyOnlyAfterRealtime ==
    RealtimeRan =>
        /\ resp.upstream[1][1] = "realtime_trending_searches"
        /\ Cardinality(TodayCalls) <= 1
        /\ \A i \in TodayCalls :
              /\ i = 2
              /\ resp.upstream[1][3] # "rows"
        /\ Len(resp.upstream) <= 2

C22_Witness ==
    /\ RealtimeRan
    /\ TodayCalls = {2}
    /\ resp.upstream[2][3] = "rows"
    /\ resp.body.note = "Used daily trends as fallback"

\* C23: when the realtime call and the daily call both raised, the error text
\* returned names the failure of the daily call.
C23_ExhaustedReportsLastError ==
    (RealtimeRan /\ AllUpstreamFailed /\ Len(resp.upstream) = 2) =>
        \E i \in DOMAIN resp.body.error :
            resp.body.error[i] = "today_searches"

\* the pn of request r is not a country its endpoint supports: for the
\* realtime endpoint its normalised code is not in supported_countries, for
\* the daily endpoint it is neither a key of known_countries nor one of the
\* codes the retry is made for
UnsupportedPn(r) ==
    IF r.path = <<"trends", "realtime-trending-searches">>
    THEN normalize_pn(r.pn) \notin supported_countries
    ELSE /\ ~ \E a \in known_countries : a[1] = lower(r.pn)
         /\ lower(r.pn) \notin alternate_format_countries

\* C15: on both trending-search endpoints a pn that resolves to no supported
\* country is rejected before any provider call, with the supported-country
\* list in the error payload.
C15_UnsupportedPnRejected ==
    (Handled /\ resp.status # 429 /\ req.path \in TrendingPaths
       /\ UnsupportedPn(req)) =>
        /\ resp.upstream = << >>
        /\ resp.status \in {400, 500}
        /\ \E i \in DOMAIN resp.body.message :
              resp.body.message[i] = supported_countries

----------------------------------------------------------------------------
(* Properties of the handlers *)

\* the keywords of request r
KeywordsOf(r) == split(Get(r.query, "keywords", DefaultKeywords), ",")

\* the paths whose handlers take keywords and a timeframe
KeywordPaths == { <<"trends">>, <<"trends", "interest-over-time">>,
                  <<"trends", "interest-by-region">>,
                  <<"trends", "related-topics">>,
                  <<"trends", "related-queries">> }

\* cli.get_top_charts: "date < 2001"
MinChartYear == 2001

\* request r breaks a parameter constraint: more than 5 keywords, a
\* timeframe validate_timeframe does not accept, a top-charts year before
\* 2001, an unsupported country, or text where an integer is read
BreaksConstraint(r) ==
    \/ /\ r.path \in KeywordPaths
       /\ \/ Len(KeywordsOf(r)) > MaxKeywords
          \/ LET tf == validate_timeframe(Get(r.query, "timeframe", DefaultTimeframe))
             IN  tf.raised \/ ~ tf.value
    \/ /\ r.path = <<"trends", "top-charts">>
       /\ LET date == int(Get(r.query, "date", DefaultDate))
          IN  date.raised \/ date.value < MinChartYear
    \/ /\ r.path = <<"trends", "historical-hourly-interest">>
       /\ int(Get(r.query, "year_start", DefaultYearStart)).raised
    \/ /\ r.path \in KeywordPaths
            \cup { <<"trends", "top-charts">>,
                   <<"trends", "historical-hourly-interest">> }
       /\ int(Get(r.query, "tz", DefaultTz)).raised
    \/ /\ r.path \in TrendingPaths
       /\ UnsupportedPn(r)

\* C16: a request that breaks a parameter constraint is answered with 400 and
\* no provider is called for it.
C16_ConstraintGives400 ==
    (Handled /\ resp.status # 429 /\ BreaksConstraint(req)) =>
        (resp.status = 400 /\ resp.upstream = << >>)

\* the last request asked for related topics or queries and the provider
\* returned
RelatedReturned ==
    /\ Handled
    /\ resp.status # 429
    /\ \/ req.path \in { <<"trends", "related-topics">>,
                         <<"trends", "related-queries">> }
       \/ /\ req.path = <<"trends">>
          /\ req.query.query_type = <<"related_queries">>
    /\ resp.upstream # << >>
    /\ resp.upstream[1][3] # "raise"

RouteTable ==
    { << <<"health">>, "health" >>, << <<"">>, "health" >>,
      << <<"search">>, "handle_google_search" >>,
      << <<"search", "combined">>, "handle_combined_search" >>,
      << <<"niche-topics">>, "handle_niche_topics" >>,
      << <<"autocomplete">>, "handle_autocomplete" >>,
      << <<"trends">>, "handle_trends" >>,
      << <<"trends", "interest-over-time">>, "handle_interest_over_time" >>,
      << <<"trends", "multirange-interest-over-time">>,
         "handle_multirange_interest_over_time" >>,
      << <<"trends", "historical-hourly-interest">>,
         "handle_historical_hourly_interest" >>,
      << <<"trends", "interest-by-region">>, "handle_interest_by_region" >>,
      << <<"trends", "related-topics">>, "handle_related_topics" >>,
      << <<"trends", "related-queries">>, "handle_related_queries" >>,
      << <<"trends", "trending-searches">>, "handle_trending_searches" >>,
      << <<"trends", "realtime-trending-searches">>,
         "handle_realtime_trending_searches" >>,
      << <<"trends", "top-charts">>, "handle_top_charts" >>,
      << <<"trends", "suggestions">>, "handle_suggestions" >>,
      << <<"trends", "categories">>, "handle_categories" >> }

\* the entries of the route table for a path
RoutesOf(path) == {e \in RouteTable : e[1] = path}

\* C20: an admitted request whose path is in the route table is answered by
\* the one handler the table names for it; for every other path, unknown
\* paths below /trends/ included, the answer is an error envelope that lists
\* a route to every handler of the table, and no provider is called.
C20_OneHandlerOrRouteList ==
    (Handled /\ resp.status # 429) =>
        IF RoutesOf(req.path) # {}
        THEN /\ Cardinality(RoutesOf(req.path)) = 1
             /\ \A e \in RoutesOf(req.path) : resp.handler = e[2]
        ELSE /\ resp.status >= 400
             /\ resp.body.status = "error"
             /\ "available_endpoints" \in DOMAIN resp.body
             /\ \A e \in RouteTable :
                   \E a \in resp.body.available_endpoints :
                       \E f \in RoutesOf(a) : f[2] = e[2]
             /\ resp.upstream = << >>

C20_Witness ==
    /\ Handled
    /\ req.path = <<"trends", "nothing">>
    /\ resp.status = 501
    /\ resp.handler = "handle_not_implemented"

\* C21: a request that ends in an unexpected exception is answered with 500
\* and a body of status "error" and the message text only, without sample
\* or placeholder data.
C21_ErrorBodyIsStatusAndMessage ==
    (Handled /\ resp.status = 500) =>
        /\ DOMAIN resp.body = {"status", "message"}
        /\ resp.body.status = "error"

\* C30: every request gets one status line: once send_response or send_error
\* has sent one, no second one is sent, also when writing the body fails
\* after the headers of the answer.
C30_OneStatusLine ==
    Handled => Len(resp.status_lines) = 1

----------------------------------------------------------------------------
(* Properties of the topic exploration *)

\* the exploration has started
Exploring == pc \in {"loop", "done"}

\* the parent of node n (n is not the root)
ParentOf(n) == CHOOSE p \in DOMAIN nodes :
                  \E i \in DOMAIN nodes[p].subtopics : nodes[p].subtopics[i] = n

\* the level of node n in the tree: 0 for the root
RECURSIVE LevelOf(_)
LevelOf(n) == IF n = 1 THEN 0 ELSE 1 + LevelOf(ParentOf(n))

\* C9: no keyword occurs twice in the tree, the root included.
C9_NoKeywordTwice ==
    Exploring =>
        \A m, n \in DOMAIN nodes : m # n => nodes[m].keyword # nodes[n].keyword

\* C10: for depth in 1..3 and results_per_level in 1..10 no node is deeper
\* than depth, a node on level depth has no subtopics and is never queued,
\* and no node has more than results_per_level children.
C10_DepthAndWidthBounded ==
    (Exploring /\ depth \in 1..3 /\ results_per_level \in 1..10) =>
        /\ \A n \in DOMAIN nodes :
              /\ LevelOf(n) <= depth
              /\ Len(nodes[n].subtopics) <= results_per_level
              /\ LevelOf(n) = depth => nodes[n].subtopics = << >>
        /\ \A i \in DOMAIN processing_queue :
              /\ processing_queue[i].current_depth < depth
              /\ LevelOf(processing_queue[i].parent_list)
                   = processing_queue[i].current_depth

\* C10 witness: a finished exploration of depth 3 whose tree reaches level 3,
\* where the provider offered more suggestions than results_per_level and a
\* node has exactly results_per_level children
C10_Witness ==
    /\ pc = "done"
    /\ depth = 3
    /\ results_per_level = 2
    /\ \E n \in DOMAIN nodes : LevelOf(n) = 3
    /\ \E n \in DOMAIN nodes :
          /\ Len(nodes[n].subtopics) = results_per_level
          /\ Len(suggestionFn[nodes[n].keyword].list) > results_per_level

\* C12: the exploration terminates for every suggestion provider: the queue
\* becomes empty and the tree is returned.
C12_ExploreTerminates == <>(pc = "done" /\ processing_queue = << >>)

\* C12 witness: a returned exploration of depth 3 whose provider suggests
\* the seed for the seed (a cycle) and fails for the other keyword
C12_Witness ==
    /\ pc = "done"
    /\ depth = 3
    /\ results_per_level >= 1
    /\ suggestionFn["bitcoin"].ok
    /\ \E i \in DOMAIN suggestionFn["bitcoin"].list :
          suggestionFn["bitcoin"].list[i] = "bitcoin"
    /\ ~ suggestionFn["btc"].ok
    /\ \E n \in DOMAIN nodes : LevelOf(n) = 3

\* the keyword at the head of the queue is due for expansion and the provider
\* fails for it
HeadFails ==
    /\ pc = "loop"
    /\ processing_queue # << >>
    /\ Head(processing_queue).current_depth < depth
    /\ ~ suggestionFn[Head(processing_queue).keyword].ok

\* C13: when the suggestions of one keyword fail, the tree built so far is
\* kept and only that keyword is dropped from the queue; in the returned tree
\* a node whose keyword failed has no children while every other node above
\* the last level has all the children its suggestions give.
C13_FailureSkipsOneBranch ==
    /\ [][HeadFails => /\ nodes' = nodes
                       /\ processing_queue' = Tail(processing_queue)
                       /\ pc' = "loop"]_vars
    /\ [](pc = "done" =>
            \A n \in DOMAIN nodes :
               LevelOf(n) < depth =>
                  IF suggestionFn[nodes[n].keyword].ok
                  THEN Len(nodes[n].subtopics) =
                       Len(SliceTo(suggestionFn[nodes[n].keyword].list,
                                   results_per_level))
                  ELSE nodes[n].subtopics = << >>)

\* C13 witness: a returned tree with a node whose keyword failed and, queued
\* behind it, a node that was still expanded
C13_Witness ==
    /\ pc = "done"
    /\ \E f, n \in DOMAIN nodes :
          /\ f < n
          /\ LevelOf(f) < depth
          /\ ~ suggestionFn[nodes[f].keyword].ok
          /\ nodes[n].subtopics # << >>

\* the next iteration of the loop calls the suggestion provider
CallsProviderNext ==
    /\ pc = "loop"
    /\ processing_queue # << >>
    /\ Head(processing_queue).current_depth < depth

\* C24: when the exploration is about to call the suggestion provider again,
\* the pacing delay has run since the previous call, whether that call
\* succeeded or failed.
C24_DelayBetweenCalls ==
    CallsProviderNext => pacing # "not slept"

\* the keywords of the children of node n, in their order
ChildKeywords(n) ==
    [i \in DOMAIN nodes[n].subtopics |-> nodes[nodes[n].subtopics[i]].keyword]

\* C25: the queue holds the keywords level by level, every keyword of a level
\* before those of the next, and the children of an expanded node are the
\* suggestions the provider returned for it, in that order.
C25_BreadthFirstInOrder ==
    Exploring =>
        /\ \A i, j \in DOMAIN processing_queue :
              i < j => processing_queue[i].current_depth
                         <= processing_queue[j].current_depth
        /\ \A n \in DOMAIN nodes :
              \/ nodes[n].subtopics = << >>
              \/ ChildKeywords(n) =
                    get_keyword_suggestions(suggestionFn, nodes[n].keyword,
                                            results_per_level).value

C25_Witness ==
    /\ Exploring
    /\ Len(processing_queue) >= 2
    /\ Head(processing_queue).current_depth
         < processing_queue[Len(processing_queue)].current_depth
    /\ ChildKeywords(1) = <<"btc", "bitcoin">>

----------------------------------------------------------------------------
(* Properties of single functions *)

\* C11: for every integer depth and results_per_level of the query, the
\* values handle_niche_topics uses and echoes satisfy 1 <= depth <= 3 and
\* 1 <= results_per_level <= 10.
C11_NicheParamsClamped ==
    Called("niche_topics_params") =>
        /\ fresult.value.depth \in 1..3
        /\ fresult.value.results_per_level \in 1..10

\* C14: every alias name in any letter case, and its two-letter code in any
\* letter case, is normalised to the code of that alias.
C14_AliasCaseInsensitive ==
    (Called("normalize_pn") /\ fcall.arg[2] # NoAlias) =>
        /\ fresult.value = fcall.arg[2][2]
        /\ fresult.value \in supported_countries

\* C14 witness: a mixed-case spelling of an alias name has been normalised
C14_Witness ==
    /\ Called("normalize_pn")
    /\ fcall.arg[1] = <<"U", "n", "i", "t", "e", "d", "_", "S", "t", "a", "t", "e", "s">>
    /\ fresult.value = <<"U", "S">>

\* C17: get_interest_over_time goes on to the trends provider exactly when
\* it is given 1 to 5 keywords, a well-formed timeframe and an empty or
\* well-formed geo; with no keyword or more than 5 it raises ValueError
\* before any provider is constructed or called.
C17_InterestAcceptsExactly ==
    Called("get_interest_over_time") =>
        LET n == Len(fcall.arg[1])
        IN  /\ fresult.upstream # << >>
                <=> (n >= 1 /\ n <= MaxKeywords /\ fcall.arg[2][2] /\ fcall.arg[3][2])
            /\ (n = 0 \/ n > MaxKeywords) => (fresult.raised /\ fresult.upstream = << >>)

C17_Witness ==
    /\ Called("get_interest_over_time")
    /\ Len(fcall.arg[1]) = MaxKeywords
    /\ fcall.arg[2][2] /\ fcall.arg[3][2]
    /\ fresult.upstream # << >>
    /\ ~ fresult.raised

\* C18: validate_timeframe returns true for every "today N-u" with N a
\* decimal number and u one of y, m, d, and for every "YYYY-MM-DD YYYY-MM-DD";
\* it returns false for "invalid".
C18_TimeframeForms ==
    Called("validate_timeframe") =>
        /\ fcall.arg[2] \in {"today", "range"} =>
              (~ fresult.raised /\ fresult.value)
        /\ fcall.arg[2] = "invalid" =>
              (~ fresult.raised /\ ~ fresult.value)

C18_Witness ==
    /\ Called("validate_timeframe")
    /\ fcall.arg[2] = "today"
    /\ fcall.arg[1][Len(fcall.arg[1])] = "d"
    /\ ~ fresult.raised /\ fresult.value

\* C28: validate_timeframe is total: for every string, those with two or
\* more spaces included, it returns a boolean and does not raise.
C28_ValidateTimeframeTotal ==
    Called("validate_timeframe") =>
        (~ fresult.raised /\ fresult.value \in BOOLEAN)

\* C29: the realtime normalisation lets a pn through the supported-country
\* test only if pn is, in any letter case, a key of the alias table or a
\* supported two-letter code; any other pn, such as a longer country name the
\* table does not hold, is rejected.
C29_OnlyAliasOrCodeAccepted ==
    (Called("normalize_pn") /\ fresult.value \in supported_countries) =>
        \/ \E a \in country_map : a[1] = lower(fcall.arg[1])
        \/ upper(fcall.arg[1]) \in supported_countries

============================================================================
